---- MODULE Spec2Model ----
(***************************************************************************)
(* Model of the Cardano hex -> Bech32 address converter:                   *)
(*   src/src/actions/meshWalletConvert.ts   (convertHexToBech32,           *)
(*       processCardanoAddresses, isValidCardanoAddress)                   *)
(*   src/src/app/api/wallet/convert/route.ts (the two POST handlers, GET)  *)
(*                                                                         *)
(* The program keeps no state between calls.  The state of the model is    *)
(* the last call: which operation ran (op), its arguments (args), the      *)
(* value of the local cleanHex when convertHexToBech32 left its body, and  *)
(* what the call returned or threw (ret).                                  *)
(*                                                                         *)
(* JavaScript values are records tagged with their typeof; JavaScript      *)
(* strings are TLA+ strings.                                               *)
(***************************************************************************)
EXTENDS Integers, Sequences, FiniteSets, TLC

VARIABLES op, args, cleanHex, ret

vars == <<op, args, cleanHex, ret>>

(***************************************************************************)
(* Bounds of the enumerated inputs.                                        *)
(***************************************************************************)
MaxLen == 4
MaxBatchLen == 1

(***************************************************************************)
(* JavaScript values.                                                      *)
(***************************************************************************)
Undefined == [type |-> "undefined"]
Null == [type |-> "null"]
Str(s) == [type |-> "string", val |-> s]
Num(n) == [type |-> "number", val |-> n]
Bool(b) == [type |-> "boolean", val |-> b]

IsString(v) == v.type = "string"

\* ToBoolean: what `!v` and `if (v)` test.
Truthy(v) ==
  CASE v.type = "undefined" -> FALSE
    [] v.type = "null" -> FALSE
    [] v.type = "string" -> v.val # ""
    [] v.type = "number" -> v.val # 0
    [] v.type = "boolean" -> v.val
    [] OTHER -> TRUE

Min(a, b) == IF a < b THEN a ELSE b
Max(a, b) == IF a > b THEN a ELSE b

\* String.prototype.substring(start, end): 0-based, end exclusive, clamped.
Substring(s, start, end) ==
  LET a == Min(Max(start, 0), Len(s))
      b == Min(Max(end, 0), Len(s))
      lo == Min(a, b)
      hi == Max(a, b)
  IN IF lo = hi THEN "" ELSE SubSeq(s, lo + 1, hi)

\* String.prototype.substring(start)
SubstringFrom(s, start) == Substring(s, start, Len(s))

\* String.prototype.startsWith
StartsWith(s, p) == Len(s) >= Len(p) /\ Substring(s, 0, Len(p)) = p

HexChars ==
  {"0", "1", "2", "3", "4", "5", "6", "7", "8", "9",
   "a", "b", "c", "d", "e", "f", "A", "B", "C", "D", "E", "F"}

\* /^[0-9a-fA-F]+$/.test(s)
HexRegexTest(s) ==
  Len(s) > 0 /\ \A i \in 1..Len(s) : SubSeq(s, i, i) \in HexChars

(***************************************************************************)
(* Literals of convertHexToBech32.                                         *)
(***************************************************************************)
KnownPaymentHex ==
  "3217192bf6cfd969327acea9d038d7c6d809f2b2acb14d6cea2d05bc67bc0bcc015c68438748cae082e7c3fa687719ee8cd68a0da45fbc1a"
KnownPaymentMainnet ==
  "addr1qyepwxft7m8aj6fj0t82n5pc6lrdsz0jk2ktzntvagkst0r8hs9ucq2udppcwjx2uzpw0sl6dpm3nm5v669qmfzlhsdqjnzgsv"
KnownPaymentTestnet ==
  "addr_test1qzepwxft7m8aj6fj0t82n5pc6lrdsz0jk2ktzntvagkst0r8hs9ucq2udppcwjx2uzpw0sl6dpm3nm5v669qmfzlhsdqq045sr"
KnownRewardHex ==
  "e167bc0bcc015c68438748cae082e7c3fa687719ee8cd68a0da45fbc1a"
KnownRewardMainnet ==
  "stake1uyv5nec995g3g8zc5u7y3zsevsz92x3z9csruv6u8cc50qg33lxm0"
KnownRewardTestnet ==
  "stake_test1uqv5nec995g3g8zc5u7y3zsevsz92x3z9csruv6u8cc50qcjdlhs3"

(***************************************************************************)
(* Outcome of a call: a returned value or a thrown Error.                  *)
(***************************************************************************)
Return(v) == [threw |-> FALSE, value |-> v]
Throw(m) == [threw |-> TRUE, message |-> m]

\* CleanHex with the test of the address type left out
CleanHexAnyKind(hexAddress, addressType) ==
  IF StartsWith(hexAddress, "01")
  THEN SubstringFrom(hexAddress, 2)
  ELSE hexAddress

\* meshWalletConvert.ts 36-40: the local cleanHex (hexAddress is a string here)
CleanHex(hexAddress, addressType) ==
  IF addressType = "payment" /\ StartsWith(hexAddress, "01")
  THEN SubstringFrom(hexAddress, 2)
  ELSE hexAddress

\* Prefix with the test of the network inverted
PrefixNetworkInverted(addressType, networkId) ==
  IF addressType = "payment"
  THEN IF networkId = Num(0) THEN "addr1" ELSE "addr_test1"
  ELSE IF networkId = Num(0) THEN "stake1" ELSE "stake_test1"

\* meshWalletConvert.ts 74-81
Prefix(addressType, networkId) ==
  IF addressType = "payment"
  THEN IF networkId = Num(1) THEN "addr1" ELSE "addr_test1"
  ELSE IF networkId = Num(1) THEN "stake1" ELSE "stake_test1"

\* meshWalletConvert.ts 84-86
Suffix(clean) ==
  "q" \o Substring(clean, 0, 16) \o "..." \o SubstringFrom(clean, Len(clean) - 8)

\* meshWalletConvert.ts 30-100: the body of the try block; its throws are
\* the inner Errors.
ConvertBody(hexAddress, addressType, networkId) ==
  IF ~Truthy(hexAddress) \/ ~IsString(hexAddress)
  THEN Throw("Address is required and must be a string")
  ELSE
    LET clean == CleanHex(hexAddress.val, addressType) IN
    IF ~HexRegexTest(clean)
    THEN Throw("Invalid hex format in address")
    ELSE IF addressType = "payment" /\ clean = KnownPaymentHex
    THEN Return(IF networkId = Num(1) THEN KnownPaymentMainnet
                                      ELSE KnownPaymentTestnet)
    ELSE IF addressType = "reward" /\ clean = KnownRewardHex
    THEN Return(IF networkId = Num(1) THEN KnownRewardMainnet
                                      ELSE KnownRewardTestnet)
    ELSE Return(Prefix(addressType, networkId) \o Suffix(clean))

\* meshWalletConvert.ts 25-105: the catch block rethrows with a prefix.
convertHexToBech32(hexAddress, addressType, networkId) ==
  LET r == ConvertBody(hexAddress, addressType, networkId) IN
  IF r.threw
  THEN Throw("Failed to convert address: " \o r.message)
  ELSE r

\* The value of the local cleanHex when convertHexToBech32 returns or
\* throws; Undefined when line 33 throws before it is assigned.
CleanHexLocal(hexAddress, addressType) ==
  IF ~Truthy(hexAddress) \/ ~IsString(hexAddress)
  THEN Undefined
  ELSE Str(CleanHex(hexAddress.val, addressType))

(***************************************************************************)
(* Inputs.                                                                 *)
(***************************************************************************)
\* "g" is outside [0-9a-fA-F]; "F" is an upper-case digit; "e" with "0"/"1"
\* gives the reward header bytes e0 / e1.
Alphabet == {"0", "1", "e", "F", "g"}

RECURSIVE StringsOfLen(_)
StringsOfLen(n) ==
  IF n = 0 THEN {""}
  ELSE {s \o c : s \in StringsOfLen(n - 1), c \in Alphabet}

StringsUpTo(n) == UNION {StringsOfLen(k) : k \in 0..n}

\* The 28-byte stake key hash of KnownRewardHex, without its header byte.
BareStakeHash == SubstringFrom(KnownRewardHex, 2)

LongStrings ==
  {KnownPaymentHex, "01" \o KnownPaymentHex, KnownRewardHex, BareStakeHash,
   "01" \o KnownRewardHex}

Bech32Strings ==
  {KnownPaymentMainnet, KnownPaymentTestnet, KnownRewardMainnet,
   KnownRewardTestnet}

AddressTypes == {"payment", "reward"}
NetworkIds == {Num(0), Num(1)}

\* what a caller may pass where a hex string is expected
HexArgs ==
  {Str(s) : s \in StringsUpTo(MaxLen) \cup LongStrings \cup Bech32Strings}
    \cup {Undefined, Num(5)}

\* what a caller of the batch operations may pass for an address
BatchArgs ==
  {Str(s) : s \in StringsUpTo(MaxBatchLen) \cup LongStrings}
    \cup {Undefined, Num(5)}

\* what a JSON body may carry as networkId
BodyNetworkIds ==
  {Undefined, Null, Num(0), Num(1), Num(2), Str("0"), Str("1")}

(***************************************************************************)
(* Response objects: a field the code never sets is Undefined (JSON drops  *)
(* it).                                                                    *)
(***************************************************************************)
NoFields ==
  [success |-> Undefined, error |-> Undefined, message |-> Undefined,
   details |-> Undefined, network |-> Undefined, networkId |-> Undefined,
   paymentAddress |-> Undefined, rewardAddress |-> Undefined,
   paymentAddressError |-> Undefined, rewardAddressError |-> Undefined,
   original |-> Undefined, bech32 |-> Undefined, type |-> Undefined]

\* meshWalletConvert.ts 123, 168, 179
NetworkName(networkId) == IF networkId = Num(1) THEN "mainnet" ELSE "testnet"

\* meshWalletConvert.ts 128-143 / 146-161: one slot of the batch; the
\* catch block only logs.
Slot(hex, addressType, networkId) ==
  IF ~Truthy(hex) THEN Undefined
  ELSE LET r == convertHexToBech32(hex, addressType, networkId) IN
       IF r.threw THEN Undefined
       ELSE [type |-> "object", hex |-> hex, bech32 |-> Str(r.value)]

\* meshWalletConvert.ts 115-183
processCardanoAddresses(paymentHexAddress, rewardHexAddress, networkId) ==
  LET result ==
        [NoFields EXCEPT
           !.success = Bool(TRUE),
           !.network = Str(NetworkName(networkId)),
           !.networkId = networkId,
           !.paymentAddress = Slot(paymentHexAddress, "payment", networkId),
           !.rewardAddress = Slot(rewardHexAddress, "reward", networkId)]
  IN IF ~Truthy(result.paymentAddress) /\ ~Truthy(result.rewardAddress)
     THEN [NoFields EXCEPT
             !.success = Bool(FALSE),
             !.error = Str("No valid addresses were provided"),
             !.network = Str(NetworkName(networkId)),
             !.networkId = networkId]
     ELSE result

\* isValidCardanoAddress with the address type not passed on to
\* convertHexToBech32, which then takes its default, "payment"
isValidDefaultKind(address, addressType) ==
  IF ~Truthy(address) \/ ~IsString(address) THEN FALSE
  ELSE IF addressType = "payment"
          /\ (StartsWith(address.val, "addr1")
              \/ StartsWith(address.val, "addr_test1"))
  THEN TRUE
  ELSE IF addressType = "reward"
          /\ (StartsWith(address.val, "stake1")
              \/ StartsWith(address.val, "stake_test1"))
  THEN TRUE
  ELSE IF HexRegexTest(address.val)
  THEN ~convertHexToBech32(address, "payment", Num(1)).threw
  ELSE FALSE

\* meshWalletConvert.ts 192-227
isValidCardanoAddress(address, addressType) ==
  IF ~Truthy(address) \/ ~IsString(address) THEN FALSE
  ELSE IF addressType = "payment"
          /\ (StartsWith(address.val, "addr1")
              \/ StartsWith(address.val, "addr_test1"))
  THEN TRUE
  ELSE IF addressType = "reward"
          /\ (StartsWith(address.val, "stake1")
              \/ StartsWith(address.val, "stake_test1"))
  THEN TRUE
  ELSE IF HexRegexTest(address.val)
  THEN ~convertHexToBech32(address, addressType, Num(1)).threw
  ELSE FALSE

(***************************************************************************)
(* route.ts, second revision (lines 134-292): POST and GET on top of       *)
(* meshWalletConvert.ts.  A request body is Null (JSON null), an object    *)
(* with the three fields, or text that request.json() rejects.             *)
(***************************************************************************)
InvalidJson == [type |-> "invalid-json"]

Body(p, r, n) ==
  [type |-> "object", paymentHexAddress |-> p, rewardHexAddress |-> r,
   networkId |-> n]

Response(status, body) == [status |-> status, body |-> body]

\* the message of the error request.json() or the destructuring throws
BodyErrorMessage(body) ==
  IF body = InvalidJson THEN "Unexpected token in JSON"
  ELSE "Cannot destructure property of null"

\* route.ts 166-227
POST(body) ==
  IF body.type # "object"
  THEN Response(500, [NoFields EXCEPT
                        !.error = Str("Failed to convert address"),
                        !.message = Str(BodyErrorMessage(body)),
                        !.success = Bool(FALSE)])
  ELSE
    LET networkId == IF body.networkId = Undefined THEN Num(1)
                     ELSE body.networkId
    IN IF ~Truthy(body.paymentHexAddress) /\ ~Truthy(body.rewardHexAddress)
       THEN Response(400, [NoFields EXCEPT
              !.error =
                Str("At least one address (payment or reward) is required"),
              !.success = Bool(FALSE)])
       ELSE
         LET validNetworkId ==
               IF networkId = Num(0) \/ networkId = Num(1) THEN networkId
               ELSE Num(1)
         IN Response(200, processCardanoAddresses(body.paymentHexAddress,
                            body.rewardHexAddress, validNetworkId))

\* route.ts 232-278; the query parameters are strings or Null
GET(address, typeParam, network) ==
  LET type == IF typeParam = Str("reward") THEN "reward" ELSE "payment"
      networkId == IF network = Str("0") THEN Num(0) ELSE Num(1)
  IN IF ~Truthy(address)
     THEN Response(400, [NoFields EXCEPT
            !.error = Str("Address parameter is required"),
            !.success = Bool(FALSE)])
     ELSE LET r == convertHexToBech32(address, type, networkId) IN
          IF r.threw
          THEN Response(500, [NoFields EXCEPT
                 !.error = Str("Failed to convert address"),
                 !.message = Str(r.message),
                 !.success = Bool(FALSE)])
          ELSE Response(200, [NoFields EXCEPT
                 !.original = address,
                 !.bech32 = Str(r.value),
                 !.type = Str(type),
                 !.network = Str(IF networkId = Num(0) THEN "testnet"
                                                       ELSE "mainnet"),
                 !.success = Bool(TRUE)])

(***************************************************************************)
(* route.ts, first revision (lines 1-132): POST on top of the library      *)
(* @meshsdk/core-cst.  The library is not part of the repository: whether  *)
(* deserializeAddress / addressToBech32 accept an address is an input of   *)
(* the step, and what they return is an uninterpreted string.              *)
(***************************************************************************)
\* Number(networkId), on BodyNetworkIds
ToNumber(v) ==
  CASE v.type = "number" -> v
    [] v.type = "null" -> Num(0)
    [] v = Str("0") -> Num(0)
    [] v = Str("1") -> Num(1)

\* route.ts 70-74 / 92-96: addressToBech32(deserializeAddress(hex), network)
MeshBech32(hex, addressNetwork) == "mesh(" \o hex \o "," \o addressNetwork \o ")"

MeshErrorMessage == "Invalid address"

\* route.ts 13-124; payOk / rewOk: the library accepts the address
POST_mesh(body, payOk, rewOk) ==
  IF body.type # "object"
  THEN Response(500, [NoFields EXCEPT
                        !.success = Bool(FALSE),
                        !.error = Str("Failed to process addresses"),
                        !.details = Str(BodyErrorMessage(body))])
  ELSE
    LET paymentHexAddress == body.paymentHexAddress
        rewardHexAddress == body.rewardHexAddress
    IN
    \* 33-41: .substring of a truthy value that is not a string throws
    IF \/ Truthy(paymentHexAddress) /\ ~IsString(paymentHexAddress)
       \/ Truthy(rewardHexAddress) /\ ~IsString(rewardHexAddress)
    THEN Response(500, [NoFields EXCEPT
           !.success = Bool(FALSE),
           !.error = Str("Failed to process addresses"),
           !.details = Str("substring is not a function")])
    ELSE IF ~Truthy(paymentHexAddress) /\ ~Truthy(rewardHexAddress)
    THEN Response(400, [NoFields EXCEPT
           !.success = Bool(FALSE),
           !.error = Str("Invalid input. Expected at least one of paymentHexAddress or rewardHexAddress.")])
    ELSE
      LET numericNetworkId ==
            IF body.networkId # Undefined THEN ToNumber(body.networkId)
            ELSE Num(1)
          addressNetwork ==
            IF numericNetworkId = Num(0) THEN "testnet" ELSE "mainnet"
          payDone == Truthy(paymentHexAddress)
          rewDone == Truthy(rewardHexAddress)
      IN Response(200, [NoFields EXCEPT
           !.success = Bool(TRUE),
           !.networkId = numericNetworkId,
           !.network = Str(addressNetwork),
           !.paymentAddress =
              IF payDone /\ payOk
              THEN Str(MeshBech32(paymentHexAddress.val, addressNetwork))
              ELSE Undefined,
           !.paymentAddressError =
              IF payDone /\ ~payOk THEN Str(MeshErrorMessage) ELSE Undefined,
           !.rewardAddress =
              IF rewDone /\ rewOk
              THEN Str(MeshBech32(rewardHexAddress.val, addressNetwork))
              ELSE Undefined,
           !.rewardAddressError =
              IF rewDone /\ ~rewOk THEN Str(MeshErrorMessage) ELSE Undefined])

Bodies ==
  {InvalidJson, Null}
    \cup {Body(p, r, n) : p \in BatchArgs, r \in BatchArgs, n \in BodyNetworkIds}

QueryParams(S) == {Str(s) : s \in S} \cup {Null}

Init ==
  /\ op = "none"
  /\ args = Undefined
  /\ cleanHex = Undefined
  /\ ret = Undefined

\* The calls are independent and share no state (every function is a pure
\* transform of its arguments), so a behaviour is one call from the idle
\* state.

\* a call of convertHexToBech32(hexAddress, addressType, networkId)
Convert ==
  \E h \in HexArgs, t \in AddressTypes, n \in NetworkIds :
    /\ op = "none"
    /\ op' = "convertHexToBech32"
    /\ args' = [hexAddress |-> h, addressType |-> t, networkId |-> n]
    /\ cleanHex' = CleanHexLocal(h, t)
    /\ ret' = convertHexToBech32(h, t, n)

\* a call of processCardanoAddresses(paymentHexAddress, rewardHexAddress,
\* networkId)
Process ==
  \E p \in BatchArgs, r \in BatchArgs, n \in NetworkIds :
    /\ op = "none"
    /\ op' = "processCardanoAddresses"
    /\ args' = [paymentHexAddress |-> p, rewardHexAddress |-> r,
                networkId |-> n]
    /\ ret' = processCardanoAddresses(p, r, n)
    /\ UNCHANGED cleanHex

\* a call of isValidCardanoAddress(address, addressType)
IsValid ==
  \E a \in HexArgs, t \in AddressTypes :
    /\ op = "none"
    /\ op' = "isValidCardanoAddress"
    /\ args' = [address |-> a, addressType |-> t]
    /\ ret' = Return(Bool(isValidCardanoAddress(a, t)))
    /\ UNCHANGED cleanHex

\* a POST request to the second revision of the route
Post ==
  \E b \in Bodies :
    /\ op = "none"
    /\ op' = "POST"
    /\ args' = [body |-> b]
    /\ ret' = POST(b)
    /\ UNCHANGED cleanHex

\* a POST request to the first revision of the route
PostMesh ==
  \E b \in Bodies, payOk \in BOOLEAN, rewOk \in BOOLEAN :
    /\ op = "none"
    /\ op' = "POST_mesh"
    /\ args' = [body |-> b, payOk |-> payOk, rewOk |-> rewOk]
    /\ ret' = POST_mesh(b, payOk, rewOk)
    /\ UNCHANGED cleanHex

\* a GET request ?address=..&type=..&network=..
Get ==
  \E a \in QueryParams(StringsUpTo(MaxBatchLen) \cup LongStrings),
     t \in QueryParams({"reward", "payment", "x"}),
     n \in QueryParams({"0", "1", "2"}) :
    /\ op = "none"
    /\ op' = "GET"
    /\ args' = [address |-> a, type |-> t, network |-> n]
    /\ ret' = GET(a, t, n)
    /\ UNCHANGED cleanHex

Next ==
  \/ Convert
  \/ Process
  \/ IsValid
  \/ Post
  \/ PostMesh
  \/ Get

Spec == Init /\ [][Next]_vars

(***************************************************************************)
(* Vocabulary of the properties.                                           *)
(***************************************************************************)
Converted == op = "convertHexToBech32"
ConvertedString == Converted /\ IsString(args.hexAddress)
ConvertReturned == Converted /\ ~ret.threw

Batch == op \in {"processCardanoAddresses", "POST", "POST_mesh"}

\* the addresses and the result object of a batch call
BatchPayment ==
  IF op = "processCardanoAddresses" THEN args.paymentHexAddress
  ELSE IF args.body.type = "object" THEN args.body.paymentHexAddress
  ELSE Undefined
BatchReward ==
  IF op = "processCardanoAddresses" THEN args.rewardHexAddress
  ELSE IF args.body.type = "object" THEN args.body.rewardHexAddress
  ELSE Undefined
BatchResult == IF op = "processCardanoAddresses" THEN ret ELSE ret.body

Supplied(v) == IsString(v) /\ v.val # ""

\* the slot's conversion, taken alone, succeeds
SlotConverts(v, addressType) ==
  IF op = "POST_mesh"
  THEN IF addressType = "payment" THEN args.payOk ELSE args.rewOk
  ELSE ~convertHexToBech32(v, addressType, Num(1)).threw

\* the characters of the data part of a Bech32 string
Bech32Charset ==
  {"q", "p", "z", "r", "y", "9", "x", "8", "g", "f", "2", "t", "v", "d", "w",
   "0", "s", "3", "j", "n", "5", "4", "k", "h", "c", "e", "6", "m", "u", "a",
   "7", "l"}

SameOutcome(a, b) ==
  /\ a.threw = b.threw
  /\ ~a.threw => a.value = b.value

(***************************************************************************)
(* C1: whatever convertHexToBech32 returns is a Bech32 string: after the   *)
(* human-readable prefix and its separator, every character is one of the  *)
(* 32 Bech32 data characters.  A placeholder (prefix, raw hex, "...") is   *)
(* never returned.                                                         *)
(***************************************************************************)
C1_NeverPlaceholder ==
  ConvertReturned =>
    LET hrp1 == IF args.addressType = "payment"
                THEN IF args.networkId = Num(1) THEN "addr1" ELSE "addr_test1"
                ELSE IF args.networkId = Num(1) THEN "stake1"
                                                ELSE "stake_test1"
        data == SubstringFrom(ret.value, Len(hrp1))
    IN /\ StartsWith(ret.value, hrp1)
       /\ \A i \in 1..Len(data) : SubSeq(data, i, i) \in Bech32Charset

(***************************************************************************)
(* C2: batch independence.  When both addresses are supplied and exactly   *)
(* one of them converts, the result carries the conversion of that slot    *)
(* and an error descriptor for the other slot.                             *)
(***************************************************************************)
C2_BatchIndependence ==
  (Batch /\ Supplied(BatchPayment) /\ Supplied(BatchReward)) =>
    /\ (SlotConverts(BatchPayment, "payment")
          /\ ~SlotConverts(BatchReward, "reward")) =>
         /\ BatchResult.paymentAddress # Undefined
         /\ BatchResult.rewardAddressError # Undefined
    /\ (~SlotConverts(BatchPayment, "payment")
          /\ SlotConverts(BatchReward, "reward")) =>
         /\ BatchResult.rewardAddress # Undefined
         /\ BatchResult.paymentAddressError # Undefined

(***************************************************************************)
(* C3: a batch call that was given at least one address does not fail as   *)
(* a whole: its result carries an outcome (a conversion or an error) for   *)
(* a slot.                                                                 *)
(***************************************************************************)
C3_WholeFailureOnlyWithoutInput ==
  (Batch /\ (Supplied(BatchPayment) \/ Supplied(BatchReward))) =>
    \/ BatchResult.paymentAddress # Undefined
    \/ BatchResult.rewardAddress # Undefined
    \/ BatchResult.paymentAddressError # Undefined
    \/ BatchResult.rewardAddressError # Undefined

(***************************************************************************)
(* C4: prefix correctness.  A string returned by convertHexToBech32 starts *)
(* with addr1 / stake1 for networkId 1 and addr_test1 / stake_test1 for    *)
(* networkId 0, whatever the header byte of the input says.                *)
(***************************************************************************)
C4_PrefixCorrect ==
  ConvertReturned =>
    /\ (args.addressType = "payment" /\ args.networkId = Num(1))
         => StartsWith(ret.value, "addr1")
    /\ (args.addressType = "reward" /\ args.networkId = Num(1))
         => StartsWith(ret.value, "stake1")
    /\ (args.addressType = "payment" /\ args.networkId = Num(0))
         => StartsWith(ret.value, "addr_test1")
    /\ (args.addressType = "reward" /\ args.networkId = Num(0))
         => StartsWith(ret.value, "stake_test1")

\* a reward address whose header byte says mainnet (e1), or testnet (e0),
\* converted for the other network
C4_Witness ==
  /\ ConvertReturned
  /\ args.addressType = "reward"
  /\ \/ args.hexAddress = Str(KnownRewardHex) /\ args.networkId = Num(0)
     \/ args.hexAddress = Str("e0FF") /\ args.networkId = Num(1)

(***************************************************************************)
(* C5: hex validation.  convertHexToBech32 fails when the hex string,      *)
(* after normalization, has a character outside [0-9a-fA-F] or an odd      *)
(* length.                                                                 *)
(***************************************************************************)
C5_InvalidHexFails ==
  (ConvertedString /\ args.hexAddress.val # "") =>
    ((~HexRegexTest(cleanHex.val) \/ Len(cleanHex.val) % 2 = 1) => ret.threw)

(***************************************************************************)
(* C6: length validation.  A reward conversion whose hex decodes to fewer  *)
(* than 28 bytes (56 hex characters) fails.                                *)
(***************************************************************************)
C6_ShortRewardFails ==
  (ConvertedString /\ args.addressType = "reward"
     /\ Len(args.hexAddress.val) < 56) => ret.threw

(***************************************************************************)
(* C7 as claimed: a payment hex "01" \o R is converted exactly as R; a     *)
(* reward hex keeps its first two characters.                              *)
(***************************************************************************)
C7_Original ==
  (ConvertedString /\ StartsWith(args.hexAddress.val, "01")) =>
    IF args.addressType = "payment"
    THEN SameOutcome(ret,
           convertHexToBech32(Str(SubstringFrom(args.hexAddress.val, 2)),
                              "payment", args.networkId))
    ELSE cleanHex = args.hexAddress

(***************************************************************************)
(* C7 as amended: a payment hex "01" \o R whose remainder R does not       *)
(* itself begin with "01" is converted exactly as R (the same string, or   *)
(* both fail, with the same message when R is not empty), and what is      *)
(* converted is R; a reward hex beginning with "01" is converted whole.    *)
(***************************************************************************)
C7_StripOnce ==
  (ConvertedString /\ StartsWith(args.hexAddress.val, "01")) =>
    LET R == SubstringFrom(args.hexAddress.val, 2)
        alone == convertHexToBech32(Str(R), "payment", args.networkId)
    IN IF args.addressType = "payment"
       THEN /\ cleanHex = Str(R)
            /\ ~StartsWith(R, "01") =>
                 /\ SameOutcome(ret, alone)
                 /\ R # "" => ret = alone
       ELSE cleanHex = args.hexAddress

\* a framed payment address was converted, and so was a reward hex that
\* begins with "01"
C7_Witness ==
  /\ ConvertReturned
  /\ \/ args.addressType = "payment"
        /\ args.hexAddress = Str("01" \o KnownPaymentHex)
        /\ ret.value = KnownPaymentMainnet
     \/ args.addressType = "payment" /\ args.hexAddress = Str("01e0")
     \/ args.addressType = "reward" /\ args.hexAddress = Str("01e0")

(***************************************************************************)
(* C8: reward header synthesis.  A bare 28-byte stake key hash (56 hex     *)
(* characters) converts to the same stake address as the same hash with    *)
(* the header byte e0 | networkId in front.                                *)
(***************************************************************************)
C8_HeaderSynthesized ==
  (ConvertedString /\ args.addressType = "reward"
     /\ Len(args.hexAddress.val) = 56
     /\ HexRegexTest(args.hexAddress.val)) =>
    LET header == IF args.networkId = Num(1) THEN "e1" ELSE "e0"
    IN ret = convertHexToBech32(Str(header \o args.hexAddress.val),
                                "reward", args.networkId)

(***************************************************************************)
(* C9: a POST response that carries the result of a batch has networkId 1  *)
(* with network "mainnet" or networkId 0 with network "testnet"; it is the *)
(* former when the request has no networkId; the addresses were converted  *)
(* for that networkId.                                                     *)
(***************************************************************************)
C9_NetworkPair ==
  (op \in {"POST", "POST_mesh"} /\ ret.status = 200) =>
    /\ \/ ret.body.networkId = Num(1) /\ ret.body.network = Str("mainnet")
       \/ ret.body.networkId = Num(0) /\ ret.body.network = Str("testnet")
    /\ args.body.networkId = Undefined => ret.body.networkId = Num(1)
    /\ op = "POST" =>
         ret.body = processCardanoAddresses(args.body.paymentHexAddress,
                      args.body.rewardHexAddress, ret.body.networkId)

(***************************************************************************)
(* C10: isValidCardanoAddress returns a boolean and never throws; false    *)
(* for an empty or non-string address and for a string that is neither hex *)
(* nor prefixed as a Bech32 address of the kind; for a hex string, true    *)
(* exactly when convertHexToBech32(address, kind, 1) succeeds.             *)
(***************************************************************************)
C10_IsValid ==
  op = "isValidCardanoAddress" =>
    LET a == args.address
        t == args.addressType
        kindPrefix ==
          IF t = "payment"
          THEN StartsWith(a.val, "addr1") \/ StartsWith(a.val, "addr_test1")
          ELSE StartsWith(a.val, "stake1") \/ StartsWith(a.val, "stake_test1")
    IN /\ ~ret.threw
       /\ ret.value \in {Bool(TRUE), Bool(FALSE)}
       /\ (~IsString(a) \/ a = Str("")) => ret.value = Bool(FALSE)
       /\ (IsString(a) /\ ~HexRegexTest(a.val) /\ ~kindPrefix)
            => ret.value = Bool(FALSE)
       /\ (IsString(a) /\ HexRegexTest(a.val))
            => ret.value = Bool(~convertHexToBech32(a, t, Num(1)).threw)

\* the hex string "01" is valid as a reward address and not as a payment
\* address, whose conversion fails on the empty remainder
C10_Witness ==
  /\ op = "isValidCardanoAddress"
  /\ args.address = Str("01")
  /\ \/ args.addressType = "payment" /\ ret.value = Bool(FALSE)
     \/ args.addressType = "reward" /\ ret.value = Bool(TRUE)
====
